---- MODULE Spec2Model ----
(***************************************************************************)
(* Mobile navigation toggle (src/unnamed/part_000).                        *)
(*                                                                         *)
(* The page supplies the nodes .nav, .nav__toggle and .nav__list; each may *)
(* be present or absent.  When .nav is present the toggle and the menu are *)
(* its descendants (they are elements of the block .nav), and the menu     *)
(* holds the .nav__link elements.  The markup starts Closed: no open       *)
(* class, aria-expanded="false", no inline overflow on body.               *)
(*                                                                         *)
(* One action is the complete dispatch of one browser event: the listeners *)
(* on the target first, then the listeners on document reached by          *)
(* bubbling.  An exception in a listener is reported by the browser and    *)
(* does not undo what ran before it; it is recorded in threw.              *)
(*                                                                         *)
(* DOM utilities (src/js/utils.js).  Each utility has its own variables    *)
(* and its own specification; while one specification runs, the variables  *)
(* of the others rest at their idle values.                                *)
(***************************************************************************)
EXTENDS Naturals, FiniteSets, Sequences, TLC

\* widths the viewport is resized to: below and at the breakpoint
Breakpoint == 768
Widths == {Breakpoint - 1, Breakpoint}

\* the delay of the resize timeout, in ms
Wait == 250

\* the amounts of time, in ms, that pass between two events
Ticks == {100, 150}

\* ids the browser hands out for pending timeouts; 0 is an unset resizeTimer
MaxTimers == 2
TimerIds == 1..MaxTimers

Targets == {"toggle", "link", "navOther", "outside"}
Keys == {"Escape", "Tab"}
Elements == {"body", "toggle", "link"}

VARIABLES
  dom,          \* which of .nav, .nav__toggle, .nav__list the page has
  menu,         \* the four reflections of the menu state
  innerWidth,   \* window.innerWidth
  timeouts,     \* the browser's pending timeouts: id |-> ms left before it fires
  resizeTimer,  \* the timeout id held by resizeTimer, 0 while undefined
  sinceResize,  \* history: ms since the last resize event handled, Wait + 1 for more
  checks,       \* history: runs of the timeout callback since that event
  armedClosed,  \* history: the pending timer's resize event found the menu closed
  focus,        \* document.activeElement
  threw,        \* the last event's dispatch raised an uncaught exception
  last,         \* history: the last event delivered
  pre,          \* history: menu before the last event
  last2,        \* history: the event before the last
  pre2,         \* history: menu before that event
  preFocus      \* history: document.activeElement before the last event

navVars == <<dom, menu, innerWidth, timeouts, resizeTimer, sinceResize, checks,
             armedClosed, focus, threw,
             last, pre, last2, pre2, preFocus>>

\* d = Utils.debounce(func, wait)
VARIABLES
  dWait,        \* the wait d was created with
  dTimers,      \* the browser's pending timeouts of d: id |-> [left, args]
  timeout,      \* the timeout id held by the closure's timeout, 0 while undefined
  dLastArgs,    \* history: the arguments of the last call to d
  dSince,       \* history: ms since the last call to d, dWait + 1 for more
  dInvoked,     \* history: invocations of func since the last call to d
  dFnArgs,      \* history: the arguments func was last invoked with
  dFnAt         \* history: ms since the last call to d at that invocation

debVars == <<dWait, dTimers, timeout, dLastArgs, dSince, dInvoked, dFnArgs, dFnAt>>

\* t = Utils.throttle(func, limit)
VARIABLES
  tLimit,       \* the limit t was created with
  inThrottle,   \* the closure's inThrottle (undefined reads as FALSE)
  tTimers,      \* the browser's pending timeouts of t: id |-> [left]
  tSince,       \* history: ms since func was last invoked, tLimit + 1 for more
  tCalls,       \* history: calls to t so far, 2 for more
  tLast,        \* history: what the last call to t did: "invoked" or "dropped"
  tHadInv,      \* history: func had been invoked before the last call to t
  tCallAt       \* history: tSince when the last call to t was made

thrVars == <<tLimit, inThrottle, tTimers, tSince, tCalls, tLast, tHadInv, tCallAt>>

\* Utils.copyToClipboard(text)
VARIABLES
  hasClipboard, \* navigator.clipboard exists
  clipboard,    \* the text on the system clipboard
  textareas,    \* temporary textareas among the children of document.body
  cFocus,       \* document.activeElement: "button" (the caller's control) or "body"
  cText,        \* history: the text of the last call
  cPath,        \* history: the path the last call took: "api" or "fallback"
  cCopied,      \* history: the last call put its text on the clipboard
  cPromise      \* history: the promise the last call returned

clipVars == <<hasClipboard, clipboard, textareas, cFocus, cText, cPath, cCopied, cPromise>>

\* Utils.getBreakpoint()
VARIABLES
  width,        \* window.innerWidth as the last call read it
  breakpoint    \* the class the last call returned, "none" before the first

bpVars == <<width, breakpoint>>

\* Utils.toast(message, type, duration)
VARIABLES
  toasts,       \* the toast elements created, in order of their calls:
                \* [duration, age, inBody, animation, removals], age in ms
                \* since the call (duration + ExitMs + 1 for more)
  toastTimers,  \* the browser's pending timeouts of the toasts:
                \* id |-> [left, toast, stage]
  toastStyles   \* the style element #toast-styles is in document.head

toastVars == <<toasts, toastTimers, toastStyles>>

\* Utils.trapFocus(element).  The page's tab order is nBefore elements
\* before the container, the container's nFocusable focusable descendants,
\* and nAfter elements after it, numbered from 1; 0 is body.
VARIABLES
  nBefore,       \* tabbable elements before the container
  nFocusable,    \* focusableElements.length
  nAfter,        \* tabbable elements after the container
  trapped,       \* trapFocus has run: the keydown listener is on the container
  activeElement, \* document.activeElement, as a place in the tab order
  kKey,          \* history: the key of the last keydown, "none" before the first
  kShift,        \* history: its shiftKey
  kFrom          \* history: document.activeElement before it

trapVars == <<nBefore, nFocusable, nAfter, trapped, activeElement, kKey, kShift, kFrom>>

utilVars == <<debVars, thrVars, clipVars, bpVars, toastVars, trapVars>>

vars == <<navVars, utilVars>>

\* no debounced function has been created
DebIdle ==
  /\ dWait = 0
  /\ dTimers = <<>>
  /\ timeout = 0
  /\ dLastArgs = ""
  /\ dSince = 0
  /\ dInvoked = 0
  /\ dFnArgs = ""
  /\ dFnAt = 0

\* no throttled function has been created
ThrIdle ==
  /\ tLimit = 0
  /\ inThrottle = FALSE
  /\ tTimers = <<>>
  /\ tSince = 0
  /\ tCalls = 0
  /\ tLast = "none"
  /\ tHadInv = FALSE
  /\ tCallAt = 0

\* copyToClipboard has not been called
ClipIdle ==
  /\ hasClipboard = TRUE
  /\ clipboard = ""
  /\ textareas = 0
  /\ cFocus = "body"
  /\ cText = ""
  /\ cPath = "none"
  /\ cCopied = FALSE
  /\ cPromise = "none"

\* getBreakpoint has not been called
BpIdle ==
  /\ width = 0
  /\ breakpoint = "none"

\* toast has not been called
ToastIdle ==
  /\ toasts = <<>>
  /\ toastTimers = <<>>
  /\ toastStyles = FALSE

\* trapFocus has not been called, on a page with nothing to focus
TrapIdle ==
  /\ nBefore = 0
  /\ nFocusable = 0
  /\ nAfter = 0
  /\ trapped = FALSE
  /\ activeElement = 0
  /\ kKey = "none"
  /\ kShift = FALSE
  /\ kFrom = 0

UtilsIdle == DebIdle /\ ThrIdle /\ ClipIdle /\ BpIdle /\ ToastIdle /\ TrapIdle

\* String(isOpen), as setAttribute stores a boolean
ToStr(b) == IF b THEN "true" ELSE "false"

ClosedMenu ==
  [listOpen |-> FALSE, toggleOpen |-> FALSE, ariaExpanded |-> "false", overflow |-> ""]

OpenMenu ==
  [listOpen |-> TRUE, toggleOpen |-> TRUE, ariaExpanded |-> "true", overflow |-> "hidden"]

\* slip: returns only when both toggle and menu are missing
Registered_Either(d) == d.toggle \/ d.menu

\* init() returns before registering anything unless toggle and menu exist
Registered(d) == d.toggle /\ d.menu

\* slip: body scroll is locked on every toggle
toggleMenu_AlwaysLock(m) ==
  LET isOpen == ~m.listOpen
  IN [listOpen |-> isOpen,
      toggleOpen |-> ~m.toggleOpen,
      ariaExpanded |-> ToStr(isOpen),
      overflow |-> "hidden"]

\* slip: aria-expanded is written from the state before the toggle
toggleMenu_StaleAria(m) ==
  LET isOpen == ~m.listOpen
  IN [listOpen |-> isOpen,
      toggleOpen |-> ~m.toggleOpen,
      ariaExpanded |-> ToStr(m.listOpen),
      overflow |-> IF isOpen THEN "hidden" ELSE ""]

toggleMenu(m) ==
  LET isOpen == ~m.listOpen
  IN [listOpen |-> isOpen,
      toggleOpen |-> ~m.toggleOpen,
      ariaExpanded |-> ToStr(isOpen),
      overflow |-> IF isOpen THEN "hidden" ELSE ""]

\* slip: body scroll is not unlocked on close
closeMenu_NoUnlock(m) ==
  [listOpen |-> FALSE, toggleOpen |-> FALSE, ariaExpanded |-> "false",
   overflow |-> m.overflow]

\* slip: the toggle keeps its open class on close
closeMenu_KeepToggle(m) ==
  [listOpen |-> FALSE, toggleOpen |-> m.toggleOpen, ariaExpanded |-> "false",
   overflow |-> ""]

closeMenu(m) ==
  [listOpen |-> FALSE, toggleOpen |-> FALSE, ariaExpanded |-> "false", overflow |-> ""]

\* nav.contains(e.target), for a page that has .nav
NavContains(t) == t \in {"toggle", "link", "navOther"}

\* the node a click target is, exists on the page
TargetExists(d, t) ==
  CASE t = "toggle" -> d.toggle
    [] t = "link" -> d.menu
    [] t = "navOther" -> d.nav
    [] OTHER -> TRUE

\* slip: the links are bound to toggleMenu
TargetClick_LinkToggles(m, t) ==
  CASE t = "toggle" -> toggleMenu(m)
    [] t = "link" -> toggleMenu(m)
    [] OTHER -> m

\* listeners on the click target itself: the toggle's and the links'
TargetClick(m, t) ==
  CASE t = "toggle" -> toggleMenu(m)
    [] t = "link" -> closeMenu(m)
    [] OTHER -> m

\* the document click listener; nav.contains is evaluated first and
\* raises TypeError when nav is null
DocClickThrows(d) == ~d.nav

\* slip: the outside-click listener does not test nav.contains
DocClick_NoContains(d, m, t) ==
  IF DocClickThrows(d) THEN m
  ELSE IF m.listOpen THEN closeMenu(m) ELSE m

DocClick(d, m, t) ==
  IF DocClickThrows(d) THEN m
  ELSE IF ~NavContains(t) /\ m.listOpen THEN closeMenu(m) ELSE m

\* slip: Escape is handled whether or not the menu is open
KeydownFires_NoGuard(m, k) == k = "Escape"

\* the document keydown listener, on menu and focus
KeydownFires(m, k) == k = "Escape" /\ m.listOpen

KeydownMenu(m, k) == IF KeydownFires(m, k) THEN closeMenu(m) ELSE m

\* slip: focus is not returned to the toggle
KeydownFocus_NoFocus(m, f, k) == f

KeydownFocus(m, f, k) == IF KeydownFires(m, k) THEN "toggle" ELSE f

Min(S) == CHOOSE x \in S : \A y \in S : x <= y

\* slip: the pending timeout is not cancelled
clearTimeout_NoOp(ts, id) == ts

\* clearTimeout(id): drops the timeout if it is pending, else does nothing
clearTimeout(ts, id) == [i \in DOMAIN ts \ {id} |-> ts[i]]

\* ids setTimeout can return: not pending, and not the one still held
FreeIds(ts, held) == {i \in TimerIds : i \notin DOMAIN ts /\ i # held}

\* setTimeout(callback, ms), given the id the browser picks
setTimeout(ts, id, ms) == [i \in DOMAIN ts \cup {id} |-> IF i = id THEN ms ELSE ts[i]]

\* time that can pass: no pending timeout is overrun
Advance(ts, d) == IF DOMAIN ts = {} THEN d ELSE Min({d} \cup {ts[i] : i \in DOMAIN ts})

Elapse(n, d) == IF n + d > Wait THEN Wait + 1 ELSE n + d

\* slip: the callback closes only above the breakpoint
TimerCallback_Strict(m, w) ==
  IF w > Breakpoint /\ m.listOpen THEN closeMenu(m) ELSE m

\* slip: the callback does not test the width
TimerCallback_NoWidth(m, w) ==
  IF m.listOpen THEN closeMenu(m) ELSE m

\* the callback of the resize timeout
TimerCallback(m, w) ==
  IF w >= Breakpoint /\ m.listOpen THEN closeMenu(m) ELSE m

\* the element a click gives focus to, where the browser focuses on click
ClickFocus(t) == IF t \in {"toggle", "link"} THEN t ELSE "body"

\* an event; for a resize event and a timeout, with the ms since the last
\* resize event when it arrives
Ev(e, a, c) ==
  [ev |-> e, arg |-> a, armedClosed |-> c,
   at |-> IF e \in {"resize", "timer"} THEN sinceResize ELSE 0]

NavInit ==
  /\ dom \in [nav : BOOLEAN, toggle : BOOLEAN, menu : BOOLEAN]
  /\ menu = ClosedMenu
  /\ innerWidth \in Widths
  /\ timeouts = <<>>
  /\ resizeTimer = 0
  /\ sinceResize = Wait + 1
  /\ checks = 0
  /\ armedClosed = FALSE
  /\ focus = "body"
  /\ threw = FALSE
  /\ last = Ev("init", "", FALSE)
  /\ pre = ClosedMenu
  /\ last2 = Ev("init", "", FALSE)
  /\ pre2 = ClosedMenu
  /\ preFocus = "body"

Init == NavInit /\ UtilsIdle

Record(e) ==
  /\ last' = e
  /\ pre' = menu
  /\ last2' = last
  /\ pre2' = pre
  /\ preFocus' = focus

Click(t) ==
  /\ TargetExists(dom, t)
  /\ IF Registered(dom)
       THEN /\ menu' = DocClick(dom, TargetClick(menu, t), t)
            /\ threw' = DocClickThrows(dom)
       ELSE /\ menu' = menu
            /\ threw' = FALSE
  /\ focus' \in {focus, ClickFocus(t)}
  /\ Record(Ev("click", t, FALSE))
  /\ UNCHANGED <<dom, innerWidth, timeouts, resizeTimer, sinceResize, checks, armedClosed>>
  /\ UNCHANGED utilVars

Keydown(k) ==
  /\ IF Registered(dom)
       THEN /\ menu' = KeydownMenu(menu, k)
            /\ focus' = KeydownFocus(menu, focus, k)
       ELSE UNCHANGED <<menu, focus>>
  /\ threw' = FALSE
  /\ Record(Ev("keydown", k, FALSE))
  /\ UNCHANGED <<dom, innerWidth, timeouts, resizeTimer, sinceResize, checks, armedClosed>>
  /\ UNCHANGED utilVars

Resize(w) ==
  /\ innerWidth' = w
  /\ IF Registered(dom)
       THEN LET cleared == clearTimeout(timeouts, resizeTimer)
                id == Min(FreeIds(cleared, resizeTimer))
            IN /\ FreeIds(cleared, resizeTimer) # {}
               /\ timeouts' = setTimeout(cleared, id, Wait)
               /\ resizeTimer' = id
               /\ sinceResize' = 0
               /\ checks' = 0
               /\ armedClosed' = ~menu.listOpen
       ELSE UNCHANGED <<timeouts, resizeTimer, sinceResize, checks, armedClosed>>
  /\ threw' = FALSE
  /\ Record(Ev("resize", "", ~menu.listOpen))
  /\ UNCHANGED <<dom, menu, focus>>
  /\ UNCHANGED utilVars

\* a timeout falls due: the browser drops it and runs its callback
TimerFire(id) ==
  /\ id \in DOMAIN timeouts
  /\ timeouts[id] = 0
  /\ timeouts' = [i \in DOMAIN timeouts \ {id} |-> timeouts[i]]
  /\ menu' = TimerCallback(menu, innerWidth)
  /\ checks' = IF checks < 2 THEN checks + 1 ELSE checks
  /\ threw' = FALSE
  /\ Record(Ev("timer", "", armedClosed))
  /\ UNCHANGED <<dom, innerWidth, resizeTimer, sinceResize, armedClosed, focus>>
  /\ UNCHANGED utilVars

\* time passes, up to the moment the next timeout falls due
Tick(d) ==
  LET a == Advance(timeouts, d)
  IN /\ a > 0
     /\ timeouts' = [i \in DOMAIN timeouts |-> timeouts[i] - a]
     /\ sinceResize' = Elapse(sinceResize, a)
     /\ UNCHANGED <<dom, menu, innerWidth, resizeTimer, checks, armedClosed, focus,
                    threw, last, pre, last2, pre2, preFocus>>
     /\ UNCHANGED utilVars

Next ==
  \/ \E t \in Targets : Click(t)
  \/ \E k \in Keys : Keydown(k)
  \/ \E w \in Widths : Resize(w)
  \/ \E id \in TimerIds : TimerFire(id)
  \/ \E d \in Ticks : Tick(d)

Spec == Init /\ [][Next]_vars

\* time passes and the browser runs the timeouts that fall due
Fairness ==
  /\ WF_vars(\E d \in Ticks : Tick(d))
  /\ WF_vars(\E id \in TimerIds : TimerFire(id))

FairSpec == Spec /\ Fairness

TypeOK ==
  /\ dom \in [nav : BOOLEAN, toggle : BOOLEAN, menu : BOOLEAN]
  /\ menu \in [listOpen : BOOLEAN, toggleOpen : BOOLEAN,
               ariaExpanded : {"true", "false"}, overflow : {"", "hidden"}]
  /\ innerWidth \in Widths
  /\ DOMAIN timeouts \subseteq TimerIds
  /\ \A i \in DOMAIN timeouts : timeouts[i] \in 0..Wait
  /\ resizeTimer \in {0} \cup TimerIds
  /\ sinceResize \in 0..(Wait + 1)
  /\ checks \in 0..2
  /\ focus \in Elements
  /\ threw \in BOOLEAN

IsClick(e, t) == e.ev = "click" /\ e.arg = t

HasMenuAndToggle == dom.toggle /\ dom.menu

----
\* The utilities of src/js/utils.js

\* a page without the navigation nodes, on which nothing happens
NavIdle ==
  /\ NavInit
  /\ dom = [nav |-> FALSE, toggle |-> FALSE, menu |-> FALSE]
  /\ innerWidth = Breakpoint

\* the amounts of time, in ms, that pass between two calls
UTicks == {50, 100}

\* clearTimeout(id) on a table id |-> [left, ...]
UClearTimeout(ts, id) == [i \in DOMAIN ts \ {id} |-> ts[i]]

\* setTimeout(callback, ms): the entry e holds ms and what the callback captured
USetTimeout(ts, id, e) == [i \in DOMAIN ts \cup {id} |-> IF i = id THEN e ELSE ts[i]]

\* time that can pass: no pending timeout is overrun
UAdvance(ts, d) ==
  IF DOMAIN ts = {} THEN d ELSE Min({d} \cup {ts[i].left : i \in DOMAIN ts})

\* the table after a ms have passed
UPass(ts, a) == [i \in DOMAIN ts |-> [ts[i] EXCEPT !.left = @ - a]]

Capped(n, d, cap) == IF n + d > cap THEN cap + 1 ELSE n + d

----
\* Utils.debounce

DebWaits == {100, 250}
DebArgs == {"a", "b"}

\* slip: a call does not cancel the timeout of the call before
executedFunction_NoClear(ts, held, id, a, w) ==
  USetTimeout(ts, id, [left |-> w, args |-> a])

\* d(...args): cancels the pending timeout and sets one that captures args
executedFunction(ts, held, id, a, w) ==
  USetTimeout(UClearTimeout(ts, held), id, [left |-> w, args |-> a])

DebInit ==
  /\ dWait \in DebWaits
  /\ dTimers = <<>>
  /\ timeout = 0
  /\ dLastArgs = ""
  /\ dSince = 0
  /\ dInvoked = 0
  /\ dFnArgs = ""
  /\ dFnAt = 0
  /\ NavIdle /\ ThrIdle /\ ClipIdle /\ BpIdle /\ ToastIdle /\ TrapIdle

DebCall(a) ==
  /\ FreeIds(UClearTimeout(dTimers, timeout), timeout) # {}
  /\ LET id == Min(FreeIds(UClearTimeout(dTimers, timeout), timeout))
     IN /\ dTimers' = executedFunction(dTimers, timeout, id, a, dWait)
        /\ timeout' = id
  /\ dLastArgs' = a
  /\ dSince' = 0
  /\ dInvoked' = 0
  /\ UNCHANGED <<dWait, dFnArgs, dFnAt>>
  /\ UNCHANGED <<navVars, thrVars, clipVars, bpVars, toastVars, trapVars>>

\* a timeout of d falls due: later() cancels the held timeout and invokes
\* func with the arguments it captured
DebLater(id) ==
  /\ id \in DOMAIN dTimers
  /\ dTimers[id].left = 0
  /\ dTimers' = UClearTimeout(UClearTimeout(dTimers, id), timeout)
  /\ dFnArgs' = dTimers[id].args
  /\ dFnAt' = dSince
  /\ dInvoked' = IF dInvoked < 2 THEN dInvoked + 1 ELSE dInvoked
  /\ UNCHANGED <<dWait, timeout, dLastArgs, dSince>>
  /\ UNCHANGED <<navVars, thrVars, clipVars, bpVars, toastVars, trapVars>>

DebTick(d) ==
  LET a == UAdvance(dTimers, d)
  IN /\ a > 0
     /\ dTimers' = UPass(dTimers, a)
     /\ dSince' = Capped(dSince, a, dWait)
     /\ UNCHANGED <<dWait, timeout, dLastArgs, dInvoked, dFnArgs, dFnAt>>
     /\ UNCHANGED <<navVars, thrVars, clipVars, bpVars, toastVars, trapVars>>

DebNext ==
  \/ \E a \in DebArgs : DebCall(a)
  \/ \E id \in TimerIds : DebLater(id)
  \/ \E d \in UTicks : DebTick(d)

DebounceSpec == DebInit /\ [][DebNext]_vars

----
\* Utils.copyToClipboard

Texts == {"w", "x", "y", "z"}

\* what navigator.clipboard.writeText(text) can do
WriteOutcomes == {"resolves", "rejects"}

\* what document.execCommand('copy') can do: return true, return false
\* (the command is unsupported or disabled), or throw
ExecOutcomes == {"true", "false", "throws"}

\* the promise, the clipboard, the textareas and the focus after
\* copyToClipboard(text); the fallback focuses its textarea and removes it,
\* which leaves the focus on body
copyToClipboard(has, text, w, e, clip, areas, f) ==
  IF has
    THEN [promise |-> IF w = "resolves" THEN "resolved" ELSE "rejected",
          copied |-> (w = "resolves"),
          clipboard |-> IF w = "resolves" THEN text ELSE clip,
          textareas |-> areas,
          focus |-> f,
          path |-> "api"]
    ELSE LET appended == areas + 1
         IN [promise |-> IF e = "throws" THEN "rejected" ELSE "resolved",
             copied |-> (e = "true"),
             clipboard |-> IF e = "true" THEN text ELSE clip,
             textareas |-> appended - 1,
             focus |-> "body",
             path |-> "fallback"]

ClipInit ==
  /\ hasClipboard \in BOOLEAN
  /\ clipboard \in {""} \cup Texts
  /\ textareas = 0
  /\ cFocus \in {"body", "button"}
  /\ cText = ""
  /\ cPath = "none"
  /\ cCopied = FALSE
  /\ cPromise = "none"
  /\ NavIdle /\ DebIdle /\ ThrIdle /\ BpIdle /\ ToastIdle /\ TrapIdle

CopyCall(text, w, e) ==
  LET r == copyToClipboard(hasClipboard, text, w, e, clipboard, textareas, cFocus)
  IN /\ clipboard' = r.clipboard
     /\ cFocus' = r.focus
     /\ textareas' = r.textareas
     /\ cText' = text
     /\ cPath' = r.path
     /\ cCopied' = r.copied
     /\ cPromise' = r.promise
     /\ UNCHANGED hasClipboard
     /\ UNCHANGED <<navVars, debVars, thrVars, bpVars, toastVars, trapVars>>

ClipNext == \E text \in Texts, w \in WriteOutcomes, e \in ExecOutcomes : CopyCall(text, w, e)

ClipboardSpec == ClipInit /\ [][ClipNext]_vars

----
\* Utils.getBreakpoint

TabletMin == 768
DesktopMin == 1024

\* the widest viewport tried
MaxWidth == 1300

\* slip: the tablet class starts one pixel late
getBreakpoint_Inclusive(w) ==
  IF w <= TabletMin THEN "mobile"
  ELSE IF w < DesktopMin THEN "tablet"
  ELSE "desktop"

getBreakpoint(w) ==
  IF w < TabletMin THEN "mobile"
  ELSE IF w < DesktopMin THEN "tablet"
  ELSE "desktop"

BpInit ==
  /\ width \in 0..MaxWidth
  /\ breakpoint = "none"
  /\ NavIdle /\ DebIdle /\ ThrIdle /\ ClipIdle /\ ToastIdle /\ TrapIdle

GetBreakpoint(w) ==
  /\ width' = w
  /\ breakpoint' = getBreakpoint(w)
  /\ UNCHANGED <<navVars, debVars, thrVars, clipVars, toastVars, trapVars>>

BpNext == \E w \in 0..MaxWidth : GetBreakpoint(w)

BreakpointSpec == BpInit /\ [][BpNext]_vars

----
\* Utils.toast

\* the delay of the inner timeout, the length of the exit animation
ExitMs == 300

\* the toasts created in one run
MaxToasts == 2

ToastDurations == {100, 200}

ToastFreeIds == {i \in 1..MaxToasts : i \notin DOMAIN toastTimers}

\* slip: the callbacks act on the toast created last, not on their own
ToastOf_Latest(entry, all) == Len(all)

\* the toast element a timeout's callback has captured
ToastOf(entry, all) == entry.toast

ToastInit ==
  /\ toasts = <<>>
  /\ toastTimers = <<>>
  /\ toastStyles \in BOOLEAN
  /\ NavIdle /\ DebIdle /\ ThrIdle /\ ClipIdle /\ BpIdle /\ TrapIdle

\* toast(message, type, duration): appends the element, adds the keyframes
\* if they are missing, and sets the outer timeout
ToastCall(dur) ==
  /\ Len(toasts) < MaxToasts
  /\ toasts' = Append(toasts, [duration |-> dur, age |-> 0, inBody |-> TRUE,
                               animation |-> "slideInRight", removals |-> 0])
  /\ toastTimers' = USetTimeout(toastTimers, Min(ToastFreeIds),
                                [left |-> dur, toast |-> Len(toasts) + 1, stage |-> "exit"])
  /\ toastStyles' = TRUE
  /\ UNCHANGED <<navVars, debVars, thrVars, clipVars, bpVars, trapVars>>

\* the outer timeout falls due: the exit animation starts and the inner
\* timeout is set
ToastExit(id) ==
  /\ id \in DOMAIN toastTimers
  /\ toastTimers[id].left = 0
  /\ toastTimers[id].stage = "exit"
  /\ LET k == ToastOf(toastTimers[id], toasts)
     IN /\ toasts' = [toasts EXCEPT ![k].animation = "slideOutRight"]
        /\ toastTimers' = USetTimeout(UClearTimeout(toastTimers, id), id,
                                      [left |-> ExitMs, toast |-> k, stage |-> "remove"])
  /\ UNCHANGED toastStyles
  /\ UNCHANGED <<navVars, debVars, thrVars, clipVars, bpVars, trapVars>>

\* the inner timeout falls due: toast.remove()
ToastRemove(id) ==
  /\ id \in DOMAIN toastTimers
  /\ toastTimers[id].left = 0
  /\ toastTimers[id].stage = "remove"
  /\ LET k == ToastOf(toastTimers[id], toasts)
     IN toasts' = [toasts EXCEPT ![k].inBody = FALSE,
                                 ![k].removals = IF toasts[k].inBody THEN @ + 1 ELSE @]
  /\ toastTimers' = UClearTimeout(toastTimers, id)
  /\ UNCHANGED toastStyles
  /\ UNCHANGED <<navVars, debVars, thrVars, clipVars, bpVars, trapVars>>

ToastTick(d) ==
  LET a == UAdvance(toastTimers, d)
  IN /\ a > 0
     /\ toastTimers' = UPass(toastTimers, a)
     /\ toasts' = [k \in DOMAIN toasts |->
                     [toasts[k] EXCEPT !.age = Capped(@, a, toasts[k].duration + ExitMs)]]
     /\ UNCHANGED toastStyles
     /\ UNCHANGED <<navVars, debVars, thrVars, clipVars, bpVars, trapVars>>

ToastNext ==
  \/ \E dur \in ToastDurations : ToastCall(dur)
  \/ \E id \in 1..MaxToasts : ToastExit(id)
  \/ \E id \in 1..MaxToasts : ToastRemove(id)
  \/ \E d \in UTicks : ToastTick(d)

ToastSpec == ToastInit /\ [][ToastNext]_vars

\* time passes and the browser runs the timeouts that fall due
ToastFairness ==
  /\ WF_vars(\E d \in UTicks : ToastTick(d))
  /\ WF_vars(\E id \in 1..MaxToasts : ToastExit(id))
  /\ WF_vars(\E id \in 1..MaxToasts : ToastRemove(id))

ToastFairSpec == ToastSpec /\ ToastFairness

----
\* Utils.trapFocus

\* the most focusable descendants of the container, and the most tabbable
\* elements on either side of it
MaxFocusable == 3
MaxOutside == 1

TrapKeys == {"Tab", "Enter"}

Total == nBefore + nFocusable + nAfter

\* focusableElements[0] and focusableElements[length - 1]; 0 for undefined
firstFocusable == IF nFocusable = 0 THEN 0 ELSE nBefore + 1
lastFocusable == IF nFocusable = 0 THEN 0 ELSE nBefore + nFocusable

InContainer(p) == nFocusable > 0 /\ firstFocusable <= p /\ p <= lastFocusable

\* where the browser moves the focus on Tab and Shift+Tab by itself
DefaultTab(p, shift) ==
  IF Total = 0 THEN 0
  ELSE IF shift THEN (IF p <= 1 THEN Total ELSE p - 1)
  ELSE (IF p >= Total THEN 1 ELSE p + 1)

\* slip: only Shift+Tab on the first element is redirected
TrapRedirect_ShiftOnly(key, shift, active) ==
  IF key # "Tab" THEN 0
  ELSE IF shift /\ active = firstFocusable THEN lastFocusable
  ELSE 0

\* the keydown listener: the element it focuses, with preventDefault, or 0
\* when it leaves the key to the browser
TrapRedirect(key, shift, active) ==
  IF key # "Tab" THEN 0
  ELSE IF shift
    THEN (IF active = firstFocusable THEN lastFocusable ELSE 0)
    ELSE (IF active = lastFocusable THEN firstFocusable ELSE 0)

TrapInit ==
  /\ nBefore \in 0..MaxOutside
  /\ nFocusable \in 0..MaxFocusable
  /\ nAfter \in 0..MaxOutside
  /\ trapped = FALSE
  /\ activeElement \in 0..Total
  /\ kKey = "none"
  /\ kShift = FALSE
  /\ kFrom = 0
  /\ NavIdle /\ DebIdle /\ ThrIdle /\ ClipIdle /\ BpIdle /\ ToastIdle

\* trapFocus(element): registers the listener and focuses the first element
TrapFocus ==
  /\ ~trapped
  /\ trapped' = TRUE
  /\ activeElement' = IF firstFocusable # 0 THEN firstFocusable ELSE activeElement
  /\ kKey' = "none"
  /\ kShift' = FALSE
  /\ kFrom' = 0
  /\ UNCHANGED <<nBefore, nFocusable, nAfter>>
  /\ UNCHANGED <<navVars, debVars, thrVars, clipVars, bpVars, toastVars>>

\* a keydown at the focused element; it reaches the listener when that
\* element is inside the container
TrapKeydown(key, shift) ==
  /\ LET r == IF trapped /\ InContainer(activeElement)
                THEN TrapRedirect(key, shift, activeElement) ELSE 0
     IN activeElement' = IF r # 0 THEN r
                         ELSE IF key = "Tab" THEN DefaultTab(activeElement, shift)
                         ELSE activeElement
  /\ kKey' = key
  /\ kShift' = shift
  /\ kFrom' = activeElement
  /\ UNCHANGED <<nBefore, nFocusable, nAfter, trapped>>
  /\ UNCHANGED <<navVars, debVars, thrVars, clipVars, bpVars, toastVars>>

TrapNext ==
  \/ TrapFocus
  \/ \E key \in TrapKeys, shift \in BOOLEAN : TrapKeydown(key, shift)

TrapSpec == TrapInit /\ [][TrapNext]_vars

----
\* Utils.throttle

ThrLimits == {100, 250}

\* slip: inThrottle is not set after func has run
throttled_NoFlag(inT) == [invoke |-> ~inT, inThrottle |-> inT, arm |-> ~inT]

\* t(...args): runs func, sets inThrottle and arms the timeout, unless
\* inThrottle is set
throttled(inT) == [invoke |-> ~inT, inThrottle |-> TRUE, arm |-> ~inT]

ThrInit ==
  /\ tLimit \in ThrLimits
  /\ inThrottle = FALSE
  /\ tTimers = <<>>
  /\ tSince = 0
  /\ tCalls = 0
  /\ tLast = "none"
  /\ tHadInv = FALSE
  /\ tCallAt = 0
  /\ NavIdle /\ DebIdle /\ ClipIdle /\ BpIdle /\ ToastIdle /\ TrapIdle

ThrCall ==
  LET r == throttled(inThrottle)
  IN /\ r.arm => FreeIds(tTimers, 0) # {}
     /\ inThrottle' = r.inThrottle
     /\ tTimers' = IF r.arm
                     THEN USetTimeout(tTimers, Min(FreeIds(tTimers, 0)), [left |-> tLimit])
                     ELSE tTimers
     /\ tSince' = IF r.invoke THEN 0 ELSE tSince
     /\ tCalls' = IF tCalls < 2 THEN tCalls + 1 ELSE tCalls
     /\ tLast' = IF r.invoke THEN "invoked" ELSE "dropped"
     /\ tHadInv' = (tCalls > 0)
     /\ tCallAt' = tSince
     /\ UNCHANGED tLimit
     /\ UNCHANGED <<navVars, debVars, clipVars, bpVars, toastVars, trapVars>>

\* the timeout of t falls due: inThrottle = false
ThrRelease(id) ==
  /\ id \in DOMAIN tTimers
  /\ tTimers[id].left = 0
  /\ tTimers' = UClearTimeout(tTimers, id)
  /\ inThrottle' = FALSE
  /\ UNCHANGED <<tLimit, tSince, tCalls, tLast, tHadInv, tCallAt>>
  /\ UNCHANGED <<navVars, debVars, clipVars, bpVars, toastVars, trapVars>>

ThrTick(d) ==
  LET a == UAdvance(tTimers, d)
  IN /\ a > 0
     /\ tTimers' = UPass(tTimers, a)
     /\ tSince' = Capped(tSince, a, tLimit)
     /\ UNCHANGED <<tLimit, inThrottle, tCalls, tLast, tHadInv, tCallAt>>
     /\ UNCHANGED <<navVars, debVars, clipVars, bpVars, toastVars, trapVars>>

ThrNext ==
  \/ ThrCall
  \/ \E id \in TimerIds : ThrRelease(id)
  \/ \E d \in UTicks : ThrTick(d)

ThrottleSpec == ThrInit /\ [][ThrNext]_vars

----
\* C1: in every reachable state the three reflections agree: the menu has
\* nav__list--open iff aria-expanded is "true" iff body overflow is 'hidden'.
C1_ReflectionsAgree ==
  /\ menu.listOpen <=> (menu.ariaExpanded = "true")
  /\ (menu.ariaExpanded = "true") <=> (menu.overflow = "hidden")

\* the menu was open and an outside click has closed it
C1_Witness ==
  /\ IsClick(last, "outside") /\ pre.listOpen /\ ~menu.listOpen
  /\ IsClick(last2, "toggle")

\* C2 (as stated): a resize event delivered while the menu is closed never
\* changes the menu state, neither at delivery nor when its timer fires.
C2_ResizeWhileClosedIsNoOp ==
  (last.ev \in {"resize", "timer"} /\ last.armedClosed) => menu = pre

\* C2 (amended): a resize event delivered while the menu is closed changes
\* nothing at delivery; when its timer fires the menu is unchanged if it is
\* still closed or the width is below 768, and is closed by closeMenu if it
\* was opened in between and the width is at least 768.
C2_ResizeWhileClosed ==
  /\ (last.ev = "resize" /\ last.armedClosed) => menu = pre
  /\ (last.ev = "timer" /\ last.armedClosed /\ (~pre.listOpen \/ innerWidth < 768))
        => menu = pre
  /\ (last.ev = "timer" /\ last.armedClosed /\ pre.listOpen /\ innerWidth >= 768)
        => menu = ClosedMenu

\* a timer armed while closed fires on a menu opened in between, below 768
C2_Witness ==
  /\ last.ev = "timer" /\ last.armedClosed
  /\ pre.listOpen /\ innerWidth < 768 /\ menu.listOpen

\* C3: a click on the toggle while the menu is Closed leaves it Open after
\* the toggle's listener and the document's click listener have both run.
C3_ToggleClickOpens ==
  (HasMenuAndToggle /\ IsClick(last, "toggle") /\ ~pre.listOpen) => menu = OpenMenu

\* the toggle inside .nav was clicked on a Closed menu
C3_Witness ==
  /\ dom.nav /\ HasMenuAndToggle
  /\ IsClick(last, "toggle") /\ ~pre.listOpen /\ menu.listOpen

\* C4 (as stated): whatever nodes are missing, init() and every event
\* delivered afterwards complete without raising an exception.
C4_NoException == threw = FALSE

\* C5: when the toggle or the menu is absent nothing is registered: no
\* event changes the menu state and no resize timer is ever set.
C5_AbsentNodesNoOp ==
  (~dom.toggle \/ ~dom.menu) =>
     /\ menu = ClosedMenu /\ pre = ClosedMenu
     /\ timeouts = <<>> /\ resizeTimer = 0
     /\ ~threw

\* a page without the toggle received a resize and then a link click
C5_Witness ==
  /\ ~dom.toggle /\ dom.menu
  /\ IsClick(last, "link") /\ last2.ev = "resize"

\* C6: two consecutive toggle clicks return menu class, toggle class,
\* aria-expanded and body overflow to what they were before the first.
C6_ToggleTwice ==
  (IsClick(last, "toggle") /\ IsClick(last2, "toggle")) => menu = pre2

\* two toggle clicks on an Open menu, which was Closed in between
C6_Witness ==
  /\ HasMenuAndToggle
  /\ IsClick(last, "toggle") /\ IsClick(last2, "toggle")
  /\ pre2.listOpen /\ ~pre.listOpen

\* C7: after a transition that opens the menu aria-expanded is "true" and
\* overflow is 'hidden'; after one that closes it, "false" and ''.
C7_AriaAndScrollFollow ==
  /\ (~pre.listOpen /\ menu.listOpen)
        => (menu.ariaExpanded = "true" /\ menu.overflow = "hidden")
  /\ (pre.listOpen /\ ~menu.listOpen)
        => (menu.ariaExpanded = "false" /\ menu.overflow = "")

\* a toggle click has closed a menu that a toggle click had opened
C7_Witness ==
  /\ IsClick(last, "toggle") /\ pre.listOpen /\ ~menu.listOpen
  /\ ~pre2.listOpen

\* C8: the menu goes from Closed to Open only in a click on the toggle.
C8_OnlyToggleOpens ==
  (~pre.listOpen /\ menu.listOpen) => IsClick(last, "toggle")

\* a link click was delivered to a Closed menu with its listeners bound
C8_Witness ==
  /\ HasMenuAndToggle
  /\ IsClick(last, "link") /\ ~pre.listOpen /\ ~menu.listOpen

\* C9 (as stated): while Open, a click on a menu link or on a target
\* outside .nav closes the menu.
C9_LinkOrOutsideCloses ==
  (pre.listOpen /\ last.ev = "click" /\ last.arg \in {"link", "outside"})
     => menu = ClosedMenu

\* C10: Escape pressed while the menu is Open closes it and moves focus to
\* the toggle.
C10_EscapeCloses ==
  (last.ev = "keydown" /\ last.arg = "Escape" /\ pre.listOpen)
     => (menu = ClosedMenu /\ focus = "toggle")

\* Escape was pressed on an Open menu while a link had focus
C10_Witness ==
  /\ last.ev = "keydown" /\ last.arg = "Escape" /\ pre.listOpen
  /\ preFocus = "link" /\ focus = "toggle"

\* C11: once a resize has armed the timeout with the menu Open at a width
\* of at least 768, the menu is eventually Closed unless a further resize
\* event replaces that timeout.
C11_ResizeEventuallyCloses ==
  \A i \in TimerIds :
    (resizeTimer = i /\ i \in DOMAIN timeouts /\ menu.listOpen /\ innerWidth >= 768)
      ~> (~menu.listOpen \/ resizeTimer # i)

\* the timeout of a resize delivered to an Open menu has fired, 250ms after
\* it, and closed the menu
C11_Witness ==
  /\ last.ev = "timer" /\ ~last.armedClosed /\ last.at = Wait
  /\ pre.listOpen /\ ~menu.listOpen /\ innerWidth >= 768

\* C12: resize handling is debounced: at most one timeout is pending, the
\* callback runs 250ms after the last resize event and not before, and it
\* has run exactly once when more than 250ms have passed since that event.
C12_ResizeDebounced ==
  /\ Cardinality(DOMAIN timeouts) <= 1
  /\ last.ev = "timer" => last.at = 250
  /\ (resizeTimer # 0 /\ sinceResize < 250) => checks = 0
  /\ (resizeTimer # 0 /\ sinceResize > 250) => checks = 1

\* a burst of two resize events less than 250ms apart, and the one callback
\* run 250ms after the second
C12_Witness ==
  /\ last.ev = "timer" /\ last.at = Wait /\ checks = 1
  /\ last2.ev = "resize" /\ last2.at < Wait
  /\ timeouts = <<>>

\* C13: after a burst of calls to d, each less than wait ms after the one
\* before, func is invoked exactly once, wait ms after the last call and
\* with the arguments of the last call.
C13_DebounceOnce ==
  /\ (timeout # 0 /\ dSince < dWait) => dInvoked = 0
  /\ (timeout # 0 /\ dSince > dWait) => dInvoked = 1
  /\ dInvoked > 0 => (dFnAt = dWait /\ dFnArgs = dLastArgs)

\* d("a") and, less than wait later, d("b"): func has run once, with "b"
C13_Witness ==
  /\ dInvoked = 1 /\ dFnArgs = "b" /\ dLastArgs = "b"
  /\ timeout = 2 /\ dSince > dWait

\* C14: the first call to t invokes func at once, a call made less than
\* limit ms after the last invocation of func is dropped, and func is
\* invoked only when at least limit ms have passed since it last was.
C14_ThrottleOncePerInterval ==
  /\ (tCalls = 1) => tLast = "invoked"
  /\ (tHadInv /\ tCallAt < tLimit) => tLast = "dropped"
  /\ (tHadInv /\ tLast = "invoked") => tCallAt >= tLimit
  /\ Cardinality(DOMAIN tTimers) <= 1

\* a call inside the interval was dropped while the timeout is pending
C14_Witness ==
  /\ tLast = "dropped" /\ tHadInv /\ tCallAt > 0 /\ tCallAt < tLimit
  /\ inThrottle /\ DOMAIN tTimers # {}

\* C15 (as stated): a call that does not put the text on the clipboard
\* returns a rejected promise, on the API path and on the execCommand path,
\* and the fallback leaves no temporary textarea in document.body.
C15_CopyFailureRejects ==
  /\ (cPath # "none" /\ ~cCopied) => cPromise = "rejected"
  /\ textareas = 0

\* C16: getBreakpoint returns 'mobile' exactly for widths below 768,
\* 'tablet' exactly for 768 up to 1023 and 'desktop' exactly from 1024 on.
C16_BreakpointClasses ==
  breakpoint # "none" =>
    /\ breakpoint \in {"mobile", "tablet", "desktop"}
    /\ (breakpoint = "mobile") <=> (width < 768)
    /\ (breakpoint = "tablet") <=> (768 <= width /\ width < 1024)
    /\ (breakpoint = "desktop") <=> (width >= 1024)

\* getBreakpoint was called at a width of exactly 768
C16_Witness == width = 768 /\ breakpoint = "tablet"

\* the life of toast k by its own clock: shown until duration, leaving
\* until duration + 300, then removed, once
ToastOnSchedule(k) ==
  LET t == toasts[k]
  IN /\ t.age < t.duration => (t.inBody /\ t.animation = "slideInRight")
     /\ (t.age > t.duration /\ t.age < t.duration + 300)
           => (t.inBody /\ t.animation = "slideOutRight")
     /\ t.age > t.duration + 300 => ~t.inBody
     /\ ~t.inBody => (t.age >= t.duration + 300 /\ t.removals = 1)
     /\ t.inBody => t.removals = 0

\* C17: every toast runs its own two timeouts: whatever other toasts are
\* created around it, each is in the document until duration + 300ms after
\* its own call, and is then removed, once; and each is removed in the end.
C17_ToastsIndependent ==
  /\ [](\A k \in DOMAIN toasts : ToastOnSchedule(k))
  /\ \A k \in 1..MaxToasts :
       (k \in DOMAIN toasts) ~> (k \in DOMAIN toasts /\ ~toasts[k].inBody)

\* two toasts of different durations overlapped; the later one, which is
\* the shorter, has been removed while the earlier is still shown
C17_Witness ==
  /\ Len(toasts) = 2
  /\ toasts[1].duration = 200 /\ toasts[2].duration = 100
  /\ toasts[1].inBody /\ ~toasts[2].inBody /\ toasts[2].removals = 1

\* C18: once trapFocus has run on a container with a focusable descendant,
\* Tab on the last one focuses the first, Shift+Tab on the first focuses the
\* last, and no run of Tab and Shift+Tab takes the focus out of them.
C18_FocusStaysTrapped ==
  (trapped /\ nFocusable >= 1) =>
    /\ nBefore + 1 <= activeElement /\ activeElement <= nBefore + nFocusable
    /\ (kKey = "Tab" /\ ~kShift /\ kFrom = nBefore + nFocusable)
          => activeElement = nBefore + 1
    /\ (kKey = "Tab" /\ kShift /\ kFrom = nBefore + 1)
          => activeElement = nBefore + nFocusable

\* Tab was pressed on the last of several focusable elements, with another
\* tabbable element after the container
C18_Witness ==
  /\ trapped /\ nFocusable >= 2 /\ nAfter >= 1
  /\ kKey = "Tab" /\ ~kShift /\ kFrom = nBefore + nFocusable
  /\ activeElement = nBefore + 1

\* C19: the toggle has nav__toggle--open exactly when the menu has
\* nav__list--open, although toggleMenu flips the two classes separately.
C19_ToggleClassFollows == menu.toggleOpen <=> menu.listOpen

\* a link click has closed a menu that a toggle click had opened
C19_Witness ==
  /\ IsClick(last, "link") /\ pre.toggleOpen /\ ~menu.toggleOpen
  /\ IsClick(last2, "toggle")

\* C20: an event whose guard does not hold changes nothing: Escape on a
\* Closed menu leaves the reflections and the focus as they were, a click
\* inside .nav on neither the toggle nor a link leaves an Open menu Open,
\* and a resize timer firing below 768 leaves an Open menu Open.
C20_GuardedEventsNoOp ==
  /\ (last.ev = "keydown" /\ last.arg = "Escape" /\ ~pre.listOpen)
        => (menu = pre /\ focus = preFocus)
  /\ (IsClick(last, "navOther") /\ pre.listOpen) => menu = pre
  /\ (last.ev = "timer" /\ innerWidth < 768 /\ pre.listOpen) => menu = pre

\* Escape was pressed on a Closed menu, with its listeners bound, while a
\* link had focus
C20_Witness ==
  /\ HasMenuAndToggle
  /\ last.ev = "keydown" /\ last.arg = "Escape" /\ ~pre.listOpen
  /\ preFocus = "link" /\ focus = "link"

====
